---- MODULE Spec2Model ----
(***************************************************************************)
(* A model of the notebook ecodatascience_using_xarray_dask.ipynb: the     *)
(* cells executed top to bottom, possibly several times over the same      *)
(* working directory.                                                      *)
(*                                                                         *)
(* Representation.                                                         *)
(*   - A file name or an S3 key is the sequence of the pieces that         *)
(*     str.format / strftime put together, e.g.                            *)
(*     <<"2017", "01", "_", "air_temperature_at_2_metres", ".nc">>.        *)
(*   - A coordinate is an integer number of micro-degrees (1e-6 degree).   *)
(*   - A longitude of a location is a record [u, tiny]: the real number    *)
(*     u * 1e-6 - (IF tiny = 0 THEN 0 ELSE 2^(-tiny)), so that the double  *)
(*     rounding of `360 + lon' on a very small negative lon is in the      *)
(*     model.  Doubles that print as a 6-place decimal are modelled by     *)
(*     that decimal (tiny = 0).                                            *)
(*   - A data value is an integer number of hundredths of its unit.        *)
(*   - A dask-backed array is its graph: the source variable and the       *)
(*     sequence of element-wise operations recorded on it.                 *)
(***************************************************************************)
EXTENDS Integers, Sequences, FiniteSets, TLC

VARIABLES
    run,          \* number of the current top-to-bottom execution
    pc,           \* the statement the execution is at
    date,         \* <<year, month>> of `date' (line 96)
    disk,         \* the working directory: set of [name, key] (key: the object copied)
    s3log,        \* every client.download_file call so far
    var_list,     \* line 126
    i,            \* position of the download loop in var_list
    year, month,  \* lines 133-134
    opened,       \* names of the files open_mfdataset opened in this execution
    ds,           \* the shared dataset handle
    da_temp_mean, \* lines 232, 248
    air_temp,     \* line 281
    temp_mean,    \* line 298
    temp_std,     \* line 314
    locs,         \* line 341
    li,           \* position of the loops over locs
    ds_locs,      \* line 361
    df_f,         \* line 400
    locs0,        \* locs as assigned at lines 341-346, before the loop of line 349
    reads,        \* array reads of the source files in this execution
    computes,     \* graph executions in this execution
    bbox          \* the slice bounds of line 187

vars == <<run, pc, date, disk, s3log, var_list, i, year, month, opened, ds,
          da_temp_mean, air_temp, temp_mean, temp_std, locs, locs0, li, ds_locs,
          df_f, reads, computes, bbox>>

-----------------------------------------------------------------------------
(* Bounds of the model *)

\* number of top-to-bottom executions over the same working directory
MaxRuns == 2

\* number of time steps along time0 (744 in a January file)
NTimes == 2

\* grid spacing in degrees (0.25 in the ERA5 files)
GridStep == 15

-----------------------------------------------------------------------------
(* Acquisition: lines 78-140 *)

era5_bucket == "era5-pds"

metadata_file == <<"main", ".nc">>

var1 == "air_temperature_at_2_metres"

var2 == "air_pressure_at_mean_sea_level"

\* the variable of the commented-out line 122
var_precip == "precipitation_amount_1hour_Accumulation"

AllVars == {var1, var2, var_precip}

\* line 96: the date the notebook is set to ("update to desired date")
Dates == {<<"2017", "01">>, <<"2017", "02">>}

\* lines 122-126: the list as written, and with line 122 chosen instead of 124
VarLists == {<<var1, var2>>, <<var_precip, var2>>}

\* line 97, 100: prefix + metadata_file
metadata_key(d) == <<d[1], "/", d[2], "/">> \o metadata_file

\* lines 130, 135
s3_data_key(y, m, var) == <<y, "/", m, "/data/", var, ".nc">>

\* lines 131, 136
data_file(y, m, var) == <<y, m, "_", var, ".nc">>

\* a presence check that never finds the file
isfile_never(name) == FALSE

\* os.path.isfile
isfile(name) == \E f \in disk : f.name = name

\* the working directory after a completed copy of key to name
WriteFile(name, key) == {f \in disk : f.name # name} \cup {[name |-> name, key |-> key]}

LogEntry(key, name, ok) ==
    [run |-> run, key |-> key, file |-> name, existed |-> isfile(name), ok |-> ok]

\* client.download_file(era5_bucket, key, name): the transfer succeeds and the
\* file holds the object, or it raises and the file is as it was (the
\* transfer writes a temporary file and renames it when complete)
download_file(key, name, ok) ==
    /\ s3log' = Append(s3log, LogEntry(key, name, ok))
    /\ disk' = IF ok THEN WriteFile(name, key) ELSE disk

\* an uncaught exception: the execution stops at this cell
Halt == pc' = "halted"

nbRest == <<opened, ds, da_temp_mean, air_temp, temp_mean, temp_std, locs, locs0, li,
            ds_locs, df_f, reads, computes, bbox>>

\* lines 96-103 (ds_meta is only printed and is not kept in the model)
MetaCell ==
    /\ pc = "meta"
    /\ \E d \in Dates, ok \in BOOLEAN :
          /\ date' = d
          /\ download_file(metadata_key(d), metadata_file, ok)
          /\ IF ok THEN pc' = "var_list" ELSE Halt
    /\ UNCHANGED <<run, var_list, i, year, month>>
    /\ UNCHANGED nbRest

\* lines 121-126
VarListCell ==
    /\ pc = "var_list"
    /\ \E vl \in VarLists : var_list' = vl
    /\ i' = 1
    /\ pc' = "loop"
    /\ UNCHANGED <<run, date, disk, s3log, year, month>>
    /\ UNCHANGED nbRest

\* a fetch without the check of line 138
FetchStepUnconditional(var, ok) ==
    LET y == date[1]
        m == date[2]
        name == data_file(y, m, var)
    IN  /\ year' = y
        /\ month' = m
        /\ download_file(s3_data_key(y, m, var), name, ok)
        /\ IF ok THEN /\ i' = i + 1
                      /\ pc' = IF i = Len(var_list) THEN "assemble" ELSE "loop"
                 ELSE /\ i' = i
                      /\ Halt

\* a fetch that catches the error of a failed transfer and goes on
FetchStepSwallow(var, ok) ==
    LET y == date[1]
        m == date[2]
        name == data_file(y, m, var)
    IN  /\ year' = y
        /\ month' = m
        /\ IF ~isfile(name)
             THEN download_file(s3_data_key(y, m, var), name, ok)
             ELSE UNCHANGED <<disk, s3log>>
        /\ i' = i + 1
        /\ pc' = IF i = Len(var_list) THEN "assemble" ELSE "loop"

\* the conditional fetch of lines 138-140 for one variable
FetchStep(var, ok) ==
    LET y == date[1]
        m == date[2]
        name == data_file(y, m, var)
    IN  /\ year' = y
        /\ month' = m
        /\ IF ~isfile(name)
             THEN /\ download_file(s3_data_key(y, m, var), name, ok)
                  /\ IF ok THEN /\ i' = i + 1
                                /\ pc' = IF i = Len(var_list) THEN "assemble" ELSE "loop"
                           ELSE /\ i' = i
                                /\ Halt
             ELSE /\ UNCHANGED <<disk, s3log>>
                  /\ i' = i + 1
                  /\ pc' = IF i = Len(var_list) THEN "assemble" ELSE "loop"

\* lines 128-140: one iteration of the loop
LoopStep ==
    /\ pc = "loop"
    /\ i <= Len(var_list)
    /\ \E ok \in BOOLEAN : FetchStep(var_list[i], ok)
    /\ UNCHANGED <<run, date, var_list>>
    /\ UNCHANGED nbRest

-----------------------------------------------------------------------------
(* The arrays: lines 157-314 *)

\* micro-degrees in a degree
Micro == 10 ^ 6

Abs(n) == IF n < 0 THEN -n ELSE n

\* the latitude coordinate of the files: 90 down to -90
LatIndex == [k \in 1..((180 \div GridStep) + 1) |-> (90 - GridStep * (k - 1)) * Micro]

\* the longitude coordinate of the files: 0 up to, and not including, 360
LonIndex == [k \in 1..((359 \div GridStep) + 1) |-> GridStep * (k - 1) * Micro]

\* the values stored in the file of `var' (hundredths of K, Pa, m)
Src(var, t, la, lo) ==
    CASE var = var1 -> 24000 + 37 * (la \div Micro) + 11 * (lo \div Micro) + 100 * t * t
      [] var = var2 -> 100 * (100000 + 3 * (la \div Micro) + (lo \div Micro) + 10 * t)
      [] OTHER      -> 5 * t + (lo \div Micro)

SrcUnits(var) == CASE var = var1 -> "K" [] var = var2 -> "Pa" [] OTHER -> "m"

\* one recorded element-wise operation applied to one value
ApplyOp(op, v) ==
    CASE op = "div100"   -> v \div 100
      [] op = "sub27315" -> v - 27315
      [] OTHER           -> v

RECURSIVE ApplyOps(_, _)
ApplyOps(ops, v) ==
    IF ops = <<>> THEN v ELSE ApplyOps(Tail(ops), ApplyOp(Head(ops), v))

\* executing the graph of a field: its values by time, latitude, longitude
Eval3D(var, ops, lat, lon) ==
    [t \in 1..NTimes |->
        [a \in 1..Len(lat) |->
            [o \in 1..Len(lon) |-> ApplyOps(ops, Src(var, t, lat[a], lon[o]))]]]

RECURSIVE SumTo(_, _, _, _)
SumTo(vals, a, o, t) ==
    IF t = 0 THEN 0 ELSE vals[t][a][o] + SumTo(vals, a, o, t - 1)

RECURSIVE SumSqTo(_, _, _, _)
SumSqTo(vals, a, o, t) ==
    IF t = 0 THEN 0 ELSE vals[t][a][o] * vals[t][a][o] + SumSqTo(vals, a, o, t - 1)

\* .mean(dim='time0'): per cell the quotient sum / count, kept as <<sum, count>>
MeanTime0(vals, nlat, nlon) ==
    [a \in 1..nlat |-> [o \in 1..nlon |-> <<SumTo(vals, a, o, NTimes), NTimes>>]]

\* .std(dim='time0'): per cell sqrt(n * sum(x^2) - sum(x)^2) / n, kept as the
\* pair <<n * sum(x^2) - sum(x)^2, n>>
StdTime0(vals, nlat, nlon) ==
    [a \in 1..nlat |-> [o \in 1..nlon |->
        <<NTimes * SumSqTo(vals, a, o, NTimes)
            - SumTo(vals, a, o, NTimes) * SumTo(vals, a, o, NTimes), NTimes>>]]

NoField == [present |-> FALSE, ops |-> <<>>, units |-> ""]

NoDs == [open |-> FALSE, lat |-> <<>>, lon |-> <<>>, fields |-> [v \in AllVars |-> NoField]]

\* line 157-158 and glob: a name matches '{year}{month}*.nc'
GlobMatch(y, m, name) ==
    /\ Len(name) >= 3
    /\ name[1] = y
    /\ name[2] = m
    /\ name[Len(name)] = ".nc"

\* the variable a data file holds
FileVar(name) == name[4]

\* line 160: xr.open_mfdataset over the files given; nothing is computed
open_mfdataset(names) ==
    [open |-> TRUE, lat |-> LatIndex, lon |-> LonIndex,
     fields |-> [v \in AllVars |->
        IF \E n \in names : FileVar(n) = v
          THEN [present |-> TRUE, ops |-> <<>>, units |-> SrcUnits(v)]
          ELSE NoField]]

\* the number of coordinates below the label, and at or below it
CountLt(idx, label) == Cardinality({k \in 1..Len(idx) : idx[k] < label})

CountLe(idx, label) == Cardinality({k \in 1..Len(idx) : idx[k] <= label})

\* pandas Index.is_monotonic_increasing
IsIncreasing(idx) == \A k \in 1..(Len(idx) - 1) : idx[k] <= idx[k + 1]

\* a slice bound that leaves the stop label out
get_slice_bound_excl(idx, label, side) ==
    IF IsIncreasing(idx)
      THEN CountLt(idx, label)
      ELSE IF side = "left" THEN Len(idx) - CountLe(idx, label)
                            ELSE Len(idx) - CountLe(idx, label)

\* pandas Index.get_slice_bound on a monotonic index: a position, from 0
get_slice_bound(idx, label, side) ==
    IF IsIncreasing(idx)
      THEN IF side = "left" THEN CountLt(idx, label)
                            ELSE CountLe(idx, label)
      ELSE IF side = "left" THEN Len(idx) - CountLe(idx, label)
                            ELSE Len(idx) - CountLt(idx, label)

\* .sel(dim=slice(start, stop)): idx[start_slice:end_slice]
SliceSel(idx, start, stop) ==
    SubSeq(idx, get_slice_bound(idx, start, "left") + 1, get_slice_bound(idx, stop, "right"))

\* line 187 as written: lat=slice(50,30), lon=slice(360-140,360-105)
BBoxLiteral ==
    [lat |-> <<50 * Micro, 30 * Micro>>, lon |-> <<(360 - 140) * Micro, (360 - 105) * Micro>>]

\* an arithmetic step recorded twice
ArithTwice(f, op) == [f EXCEPT !.ops = Append(Append(f.ops, op), op), !.units = ""]

\* the element-wise arithmetic of lines 208 and 212: the operation is recorded
\* on the field's graph and the attributes are not carried over
Arith(f, op) == [f EXCEPT !.ops = Append(f.ops, op), !.units = ""]

\* lines 209 and 213
SetUnits(f, u) == [f EXCEPT !.units = u]

NoArray ==
    [set |-> FALSE, inMemory |-> FALSE, var |-> "", ops |-> <<>>,
     lat |-> <<>>, lon |-> <<>>, val |-> <<>>]

\* ds[var]: the field as a dask-backed array, nothing computed
field_array(var) ==
    [set |-> TRUE, inMemory |-> FALSE, var |-> var, ops |-> ds.fields[var].ops,
     lat |-> ds.lat, lon |-> ds.lon, val |-> <<>>]

\* a persist that keeps nothing: the handle stays a graph
persist_lazy(a) == a

\* line 281: .persist() executes the graph and keeps the values on the workers
persist(a) == [a EXCEPT !.inMemory = TRUE, !.val = Eval3D(a.var, a.ops, a.lat, a.lon)]

\* the values of an array handle: those held in memory, or the graph executed
ArrayValues(h) == IF h.inMemory THEN h.val ELSE Eval3D(h.var, h.ops, h.lat, h.lon)

\* the source reads that getting the values of an array handle costs
ArrayReads(h) == IF h.inMemory THEN 0 ELSE 1

NoResult == [set |-> FALSE, lazy |-> TRUE, of |-> NoArray, val |-> <<>>]

\* a reduction computed where it is written
eager_reduce(a) ==
    [set |-> TRUE, lazy |-> FALSE, of |-> a,
     val |-> MeanTime0(ArrayValues(a), Len(a.lat), Len(a.lon))]

\* lines 232, 298, 314: a reduction over time0 is recorded, not computed
lazy_reduce(a) == [set |-> TRUE, lazy |-> TRUE, of |-> a, val |-> <<>>]

\* .compute() of a recorded mean
compute_mean(h) ==
    [h EXCEPT !.lazy = FALSE,
              !.val = MeanTime0(ArrayValues(h.of), Len(h.of.lat), Len(h.of.lon))]

\* .compute() of a recorded standard deviation
compute_std(h) ==
    [h EXCEPT !.lazy = FALSE,
              !.val = StdTime0(ArrayValues(h.of), Len(h.of.lat), Len(h.of.lon))]

acqVars == <<run, date, disk, s3log, var_list, i, year, month>>

\* lines 157-162
AssembleCell ==
    /\ pc = "assemble"
    /\ LET names == {f.name : f \in {g \in disk : GlobMatch(year, month, g.name)}}
       IN  /\ opened' = names
           /\ IF names = {}
                THEN /\ Halt
                     /\ ds' = ds
                ELSE /\ ds' = open_mfdataset(names)
                     /\ pc' = "subset"
    /\ UNCHANGED acqVars
    /\ UNCHANGED <<da_temp_mean, air_temp, temp_mean, temp_std, locs, locs0, li,
                   ds_locs, df_f, reads, computes, bbox>>

dsOnly == <<opened, da_temp_mean, air_temp, temp_mean, temp_std, locs, locs0, li,
            ds_locs, df_f, reads, computes, bbox>>

\* line 187
SubsetCell ==
    /\ pc = "subset"
    /\ ds' = [ds EXCEPT !.lat = SliceSel(ds.lat, bbox.lat[1], bbox.lat[2]),
                        !.lon = SliceSel(ds.lon, bbox.lon[1], bbox.lon[2])]
    /\ pc' = "convP"
    /\ UNCHANGED acqVars
    /\ UNCHANGED dsOnly

\* an attribute access ds.<var> or item access ds[var] on a missing variable raises
\* line 208
ConvP ==
    /\ pc = "convP"
    /\ IF ds.fields[var2].present
         THEN /\ ds' = [ds EXCEPT !.fields[var2] = Arith(@, "div100")]
              /\ pc' = "unitsP"
         ELSE /\ Halt
              /\ ds' = ds
    /\ UNCHANGED acqVars
    /\ UNCHANGED dsOnly

\* line 209
UnitsP ==
    /\ pc = "unitsP"
    /\ ds' = [ds EXCEPT !.fields[var2] = SetUnits(@, "hPa")]
    /\ pc' = "convT"
    /\ UNCHANGED acqVars
    /\ UNCHANGED dsOnly

\* line 212
ConvT ==
    /\ pc = "convT"
    /\ IF ds.fields[var1].present
         THEN /\ ds' = [ds EXCEPT !.fields[var1] = Arith(@, "sub27315")]
              /\ pc' = "unitsT"
         ELSE /\ Halt
              /\ ds' = ds
    /\ UNCHANGED acqVars
    /\ UNCHANGED dsOnly

\* line 213
UnitsT ==
    /\ pc = "unitsT"
    /\ ds' = [ds EXCEPT !.fields[var1] = SetUnits(@, "C")]
    /\ pc' = "mean"
    /\ UNCHANGED acqVars
    /\ UNCHANGED dsOnly

\* line 232
MeanCell ==
    /\ pc = "mean"
    /\ da_temp_mean' = lazy_reduce(field_array(var1))
    /\ pc' = "compute"
    /\ UNCHANGED acqVars
    /\ UNCHANGED <<opened, ds, air_temp, temp_mean, temp_std, locs, locs0, li,
                   ds_locs, df_f, reads, computes, bbox>>

\* line 248
ComputeCell ==
    /\ pc = "compute"
    /\ da_temp_mean' = compute_mean(da_temp_mean)
    /\ reads' = reads + ArrayReads(da_temp_mean.of)
    /\ computes' = computes + 1
    /\ pc' = "persist"
    /\ UNCHANGED acqVars
    /\ UNCHANGED <<opened, ds, air_temp, temp_mean, temp_std, locs, locs0, li,
                   ds_locs, df_f, bbox>>

\* line 281
PersistCell ==
    /\ pc = "persist"
    /\ air_temp' = persist(field_array(var1))
    /\ reads' = reads + (IF air_temp'.inMemory THEN 1 ELSE 0)
    /\ computes' = computes + (IF air_temp'.inMemory THEN 1 ELSE 0)
    /\ pc' = "pmean"
    /\ UNCHANGED acqVars
    /\ UNCHANGED <<opened, ds, da_temp_mean, temp_mean, temp_std, locs, locs0, li,
                   ds_locs, df_f, bbox>>

\* line 298
PMeanCell ==
    /\ pc = "pmean"
    /\ temp_mean' = compute_mean(lazy_reduce(air_temp))
    /\ reads' = reads + ArrayReads(air_temp)
    /\ computes' = computes + 1
    /\ pc' = "pstd"
    /\ UNCHANGED acqVars
    /\ UNCHANGED <<opened, ds, da_temp_mean, air_temp, temp_std, locs, locs0, li,
                   ds_locs, df_f, bbox>>

\* line 314
PStdCell ==
    /\ pc = "pstd"
    /\ temp_std' = compute_std(lazy_reduce(air_temp))
    /\ reads' = reads + ArrayReads(air_temp)
    /\ computes' = computes + 1
    /\ pc' = "locs"
    /\ UNCHANGED acqVars
    /\ UNCHANGED <<opened, ds, da_temp_mean, air_temp, temp_mean, locs, locs0, li,
                   ds_locs, df_f, bbox>>

-----------------------------------------------------------------------------
(* Point sampling: lines 341-401 *)

\* a decimal of degrees as a longitude value
Deg6(u) == [u |-> u, tiny |-> 0]

\* lines 341-346
LocsLiteral ==
    << [name |-> "santa_barbara",    lon |-> Deg6(-119698200), lat |-> 34420800],
       [name |-> "colorado_springs", lon |-> Deg6(-104821400), lat |-> 38833900],
       [name |-> "honolulu",         lon |-> Deg6(-157835938), lat |-> 21290014],
       [name |-> "seattle",          lon |-> Deg6(-122332100), lat |-> 47606200] >>

\* the doubles next to 360 below it are 2^-44 apart
UlpExp360 == 44

\* the test of line 350 written with <=
IsNegOrZero(x) == x.u < 0 \/ (x.u = 0 /\ x.tiny >= 0)

\* line 350: l['lon'] < 0
IsNeg(x) == x.u < 0 \/ (x.u = 0 /\ x.tiny > 0)

\* line 351: the double 360 + l['lon'], for l['lon'] < 0.  360 - 2^-e is a double
\* when e <= 44; for e = 45 it is half way between 360 - 2^-44 and 360 and
\* rounds to 360 (even), for e > 45 it is nearest to 360.
Plus360(x) ==
    IF x.tiny = 0
      THEN Deg6(360 * Micro + x.u)
      ELSE IF x.tiny <= UlpExp360
             THEN [u |-> 360 * Micro + x.u, tiny |-> x.tiny]
             ELSE Deg6(360 * Micro + x.u)

\* lines 350-351
NormalizeLon(x) == IF IsNeg(x) THEN Plus360(x) ELSE x

\* |c - x| for a coordinate c, as a pair compared lexicographically: the
\* micro-degrees, then the sign of what 2^-tiny adds
DistKey(c, x) ==
    IF x.tiny = 0 THEN <<Abs(c - x.u), 0>>
    ELSE IF c >= x.u THEN <<c - x.u, 1>> ELSE <<x.u - c, -1>>

KeyLess(p, q) == p[1] < q[1] \/ (p[1] = q[1] /\ p[2] < q[2])

\* a lookup by signed difference: the smallest coordinate wins
NearestPosSigned(idx, x) ==
    CHOOSE k \in 1..Len(idx) : \A j \in 1..Len(idx) : idx[k] <= idx[j]

\* pandas get_loc(method='nearest') without a tolerance: the position of the
\* coordinate nearest to x, the larger coordinate on a tie; no position is
\* refused for being far
NearestPos(idx, x) ==
    CHOOSE k \in 1..Len(idx) :
        \A j \in (1..Len(idx)) \ {k} :
            \/ KeyLess(DistKey(idx[k], x), DistKey(idx[j], x))
            \/ (DistKey(idx[k], x) = DistKey(idx[j], x) /\ idx[k] > idx[j])

\* line 372: air_temp_ds.sel(lon=lon, lat=lat, method='nearest')
sel_nearest(a, lon, lat) ==
    [a |-> NearestPos(a.lat, Deg6(lat)), o |-> NearestPos(a.lon, lon)]

smpRest == <<opened, ds, da_temp_mean, air_temp, temp_mean, temp_std, df_f,
             reads, computes, bbox>>

\* lines 341-346
LocsCell ==
    /\ pc = "locs"
    /\ locs' = LocsLiteral
    /\ locs0' = LocsLiteral
    /\ li' = 1
    /\ pc' = "normalize"
    /\ UNCHANGED acqVars
    /\ UNCHANGED <<ds_locs>>
    /\ UNCHANGED smpRest

\* lines 349-351: one iteration of the loop
NormalizeStep ==
    /\ pc = "normalize"
    /\ li <= Len(locs)
    /\ locs' = [locs EXCEPT ![li].lon = NormalizeLon(@)]
    /\ li' = li + 1
    /\ pc' = IF li = Len(locs) THEN "sample_init" ELSE "normalize"
    /\ UNCHANGED acqVars
    /\ UNCHANGED <<locs0, ds_locs>>
    /\ UNCHANGED smpRest

\* lines 361-362
SampleInit ==
    /\ pc = "sample_init"
    /\ ds_locs' = {}
    /\ li' = 1
    /\ pc' = "sample"
    /\ UNCHANGED acqVars
    /\ UNCHANGED <<locs, locs0>>
    /\ UNCHANGED smpRest

\* lines 366-382: one iteration of the loop; an empty coordinate has no
\* nearest label and the lookup raises
SampleStep ==
    /\ pc = "sample"
    /\ li <= Len(locs)
    /\ IF air_temp.lat = <<>> \/ air_temp.lon = <<>>
         THEN /\ Halt
              /\ UNCHANGED <<ds_locs, li>>
         ELSE /\ LET l == locs[li]
                     c == sel_nearest(air_temp, l.lon, l.lat)
                 IN  ds_locs' = ds_locs \cup
                        {[name |-> l.name, a |-> c.a, o |-> c.o,
                          lat |-> air_temp.lat[c.a], lon |-> air_temp.lon[c.o]]}
              /\ li' = li + 1
              /\ pc' = IF li = Len(locs) THEN "describe" ELSE "sample"
    /\ UNCHANGED acqVars
    /\ UNCHANGED <<locs, locs0>>
    /\ UNCHANGED smpRest

\* lines 400-401: to_dataframe() needs the values of every sampled series
DescribeCell ==
    /\ pc = "describe"
    /\ df_f' = {[name |-> e.name,
                 series |-> [t \in 1..NTimes |-> ArrayValues(air_temp)[t][e.a][e.o]]]
                : e \in ds_locs}
    /\ reads' = reads + ArrayReads(air_temp)
    /\ computes' = computes + 1
    /\ pc' = "done"
    /\ UNCHANGED acqVars
    /\ UNCHANGED <<opened, ds, da_temp_mean, air_temp, temp_mean, temp_std, locs,
                   locs0, li, ds_locs, bbox>>

-----------------------------------------------------------------------------
(* Executions *)

\* the names of a fresh kernel
Fresh ==
    /\ date = <<"", "">>
    /\ var_list = <<>>
    /\ i = 1
    /\ year = ""
    /\ month = ""
    /\ opened = {}
    /\ ds = NoDs
    /\ da_temp_mean = NoResult
    /\ air_temp = NoArray
    /\ temp_mean = NoResult
    /\ temp_std = NoResult
    /\ locs = <<>>
    /\ locs0 = <<>>
    /\ li = 1
    /\ ds_locs = {}
    /\ df_f = {}
    /\ reads = 0
    /\ computes = 0

\* the names again as in a fresh kernel
FreshAgain ==
    /\ date' = <<"", "">>
    /\ var_list' = <<>>
    /\ i' = 1
    /\ year' = ""
    /\ month' = ""
    /\ opened' = {}
    /\ ds' = NoDs
    /\ da_temp_mean' = NoResult
    /\ air_temp' = NoArray
    /\ temp_mean' = NoResult
    /\ temp_std' = NoResult
    /\ locs' = <<>>
    /\ locs0' = <<>>
    /\ li' = 1
    /\ ds_locs' = {}
    /\ df_f' = {}
    /\ reads' = 0
    /\ computes' = 0

\* the notebook is run again from the top in a fresh kernel, over the same
\* working directory
Restart ==
    /\ pc \in {"done", "halted"}
    /\ run < MaxRuns
    /\ run' = run + 1
    /\ pc' = "meta"
    /\ FreshAgain
    /\ UNCHANGED <<disk, s3log, bbox>>

Init ==
    /\ run = 1
    /\ pc = "meta"
    /\ disk = {}
    /\ s3log = <<>>
    /\ bbox = BBoxLiteral
    /\ Fresh

Next ==
    \/ MetaCell
    \/ VarListCell
    \/ LoopStep
    \/ AssembleCell
    \/ SubsetCell
    \/ ConvP
    \/ UnitsP
    \/ ConvT
    \/ UnitsT
    \/ MeanCell
    \/ ComputeCell
    \/ PersistCell
    \/ PMeanCell
    \/ PStdCell
    \/ LocsCell
    \/ NormalizeStep
    \/ SampleInit
    \/ SampleStep
    \/ DescribeCell
    \/ Restart

Spec == Init /\ [][Next]_vars

-----------------------------------------------------------------------------
(* The loop of lines 349-351 on lists of locations other than the literal *)

\* exponents e of the longitudes -2^-e tried
MinTiny == 43

MaxTiny == 46

\* longitudes in [-180, 180]
LonInputs ==
    {Deg6(u) : u \in {-180 * Micro, -157835938, -119698200, -1, 0, 10 * Micro, 180 * Micro}}
        \cup {[u |-> 0, tiny |-> e] : e \in MinTiny..MaxTiny}

InitNorm ==
    /\ run = 1
    /\ pc = "normalize"
    /\ disk = {}
    /\ s3log = <<>>
    /\ bbox = BBoxLiteral
    /\ date = <<"", "">>
    /\ var_list = <<>>
    /\ i = 1
    /\ year = ""
    /\ month = ""
    /\ opened = {}
    /\ ds = NoDs
    /\ da_temp_mean = NoResult
    /\ air_temp = NoArray
    /\ temp_mean = NoResult
    /\ temp_std = NoResult
    /\ \E x \in LonInputs, y \in LonInputs :
          locs = << [name |-> "p", lon |-> x, lat |-> 0],
                    [name |-> "q", lon |-> y, lat |-> 0] >>
    /\ locs0 = locs
    /\ li = 1
    /\ ds_locs = {}
    /\ df_f = {}
    /\ reads = 0
    /\ computes = 0

SpecNorm == InitNorm /\ [][NormalizeStep]_vars

-----------------------------------------------------------------------------
(* The selection of line 187 with bounds other than the literal *)

LatProbes == {50 * Micro, 30 * Micro, 45 * Micro, 37500000}

LonProbes == {220 * Micro, 255 * Micro, 240 * Micro, 0}

BBoxInputs == {[lat |-> <<a, b>>, lon |-> <<c, d>>] :
                  a \in LatProbes, b \in LatProbes, c \in LonProbes, d \in LonProbes}

\* the state at line 187 of a first execution as written
InitSel ==
    /\ run = 1
    /\ pc = "subset"
    /\ date = <<"2017", "01">>
    /\ year = "2017"
    /\ month = "01"
    /\ var_list = <<var1, var2>>
    /\ i = 3
    /\ disk = {[name |-> metadata_file, key |-> metadata_key(date)]}
                \cup {[name |-> data_file(year, month, v), key |-> s3_data_key(year, month, v)]
                        : v \in {var1, var2}}
    /\ s3log = << [run |-> 1, key |-> metadata_key(date), file |-> metadata_file,
                   existed |-> FALSE, ok |-> TRUE],
                  [run |-> 1, key |-> s3_data_key(year, month, var1),
                   file |-> data_file(year, month, var1), existed |-> FALSE, ok |-> TRUE],
                  [run |-> 1, key |-> s3_data_key(year, month, var2),
                   file |-> data_file(year, month, var2), existed |-> FALSE, ok |-> TRUE] >>
    /\ opened = {data_file(year, month, v) : v \in {var1, var2}}
    /\ ds = open_mfdataset(opened)
    /\ bbox \in BBoxInputs
    /\ da_temp_mean = NoResult
    /\ air_temp = NoArray
    /\ temp_mean = NoResult
    /\ temp_std = NoResult
    /\ locs = <<>>
    /\ locs0 = <<>>
    /\ li = 1
    /\ ds_locs = {}
    /\ df_f = {}
    /\ reads = 0
    /\ computes = 0

SpecSel == InitSel /\ [][SubsetCell]_vars

-----------------------------------------------------------------------------
(* Properties of the acquisition *)

Entries == 1..Len(s3log)

IsData(e) == e.file # metadata_file

\* the names of the data files of var_list in this execution
VarListFiles == {data_file(year, month, var_list[k]) : k \in 1..Len(var_list)}

\* C1: once a data file that was absent has been transferred successfully, no
\* later execution of the fetch step for the same path transfers anything: the
\* log holds no entry for that file after the successful one, so the fetch
\* step executed twice made exactly one transfer.
C1_IdempotentFetch ==
    \A j \in Entries, k \in Entries :
        (j < k /\ IsData(s3log[j]) /\ s3log[j].ok /\ ~s3log[j].existed)
            => s3log[k].file # s3log[j].file

\* C1 witness: the second execution has run the fetch step for a file that the
\* first execution transferred, and the log holds that one transfer only.
C1_Witness ==
    /\ run = 2
    /\ pc = "loop"
    /\ i = 2
    /\ LET name == data_file(year, month, var_list[1])
       IN  /\ isfile(name)
           /\ Cardinality({k \in Entries : s3log[k].file = name}) = 1
           /\ \E k \in Entries :
                 s3log[k].file = name /\ s3log[k].run = 1 /\ s3log[k].ok /\ ~s3log[k].existed

\* C2 as stated: no download is ever issued whose target local file exists.
C2_NoDownloadOverExisting == \A k \in Entries : ~s3log[k].existed

\* C2 amended: a download over an existing file is only ever that of main.nc,
\* which every execution issues first and without a check; a data file is
\* downloaded only when it is absent.
C2_OnlyMetadataOverwritten ==
    /\ \A k \in Entries : s3log[k].existed => s3log[k].file = metadata_file
    /\ \A k \in Entries :
          (k = 1 \/ s3log[k - 1].run < s3log[k].run) => s3log[k].file = metadata_file
    /\ pc \notin {"meta"} =>
          \E k \in Entries : s3log[k].run = run /\ s3log[k].file = metadata_file

\* C2 witness: a second execution with every file present has passed the
\* acquisition with one transfer, that of main.nc over the existing main.nc.
C2_Witness ==
    /\ run = 2
    /\ pc = "assemble"
    /\ \A f \in VarListFiles : \E k \in Entries : s3log[k].run = 1 /\ s3log[k].file = f
    /\ Cardinality({k \in Entries : s3log[k].run = 2}) = 1
    /\ \E k \in Entries :
          s3log[k].run = 2 /\ s3log[k].file = metadata_file /\ s3log[k].existed /\ s3log[k].ok

\* nothing after the acquisition has run in this execution
NoLaterStage ==
    /\ opened = {}
    /\ ~ds.open
    /\ ~da_temp_mean.set
    /\ ~air_temp.set
    /\ ~temp_mean.set
    /\ ~temp_std.set
    /\ locs = <<>>
    /\ ds_locs = {}
    /\ df_f = {}
    /\ reads = 0
    /\ computes = 0

\* C3: a failed transfer is the last download_file call of its execution (it
\* is not tried again and no other variable is fetched), and the execution it
\* failed in is halted with no later stage run.
C3_FailureHalts ==
    \A k \in Entries :
        ~s3log[k].ok =>
            /\ k = Len(s3log) \/ s3log[k + 1].run > s3log[k].run
            /\ s3log[k].run = run => (pc = "halted" /\ NoLaterStage)

\* C3 witness: the transfer of the first variable of var_list failed, the
\* second variable is still to fetch, and the execution is halted.
C3_Witness ==
    /\ pc = "halted"
    /\ Len(var_list) = 2
    /\ i = 1
    /\ s3log # <<>>
    /\ ~s3log[Len(s3log)].ok
    /\ s3log[Len(s3log)].file = data_file(year, month, var_list[1])
    /\ ~isfile(data_file(year, month, var_list[2]))

\* C10 as stated: the files the assembly opens are exactly those named for the
\* variables of var_list in this execution.
C10_OpensExactlyVarList == ds.open => opened = VarListFiles

-----------------------------------------------------------------------------
(* Properties of the longitude normalization, under SpecNorm *)

Range(sq) == {sq[k] : k \in 1..Len(sq)}

\* 0 <= x, x < 360 and x <= 360 for a longitude value
Ge0(x) == x.u > 0 \/ (x.u = 0 /\ x.tiny = 0)

Lt360(x) == x.u < 360 * Micro \/ (x.u = 360 * Micro /\ x.tiny > 0)

Le360(x) == x.u < 360 * Micro \/ (x.u = 360 * Micro /\ x.tiny >= 0)

\* what the loop of lines 349-351 has made of longitude a: a itself when
\* a >= 0, else 360 + a, which for a = -2^-e with e > 44 rounds to 360.0
NormalizedFrom(a, b) ==
    /\ Ge0(a) => b = a
    /\ (~Ge0(a) /\ a.tiny = 0) => b = Deg6(360 * Micro + a.u)
    /\ (~Ge0(a) /\ a.tiny > 0) =>
          b = IF a.tiny <= UlpExp360 THEN [u |-> 360 * Micro, tiny |-> a.tiny]
                                     ELSE Deg6(360 * Micro)

\* C4 as stated: after the loop every longitude is the input when the input
\* is >= 0 and 360 + input otherwise, lies in [0, 360), and is left as it is
\* by a second normalization.
C4_LonBelow360 ==
    pc = "sample_init" =>
        \A k \in 1..Len(locs) :
            /\ NormalizedFrom(locs0[k].lon, locs[k].lon)
            /\ Ge0(locs[k].lon)
            /\ Lt360(locs[k].lon)
            /\ NormalizeLon(locs[k].lon) = locs[k].lon

\* C4 amended: as C4, with the closed range [0, 360]: for a negative input of
\* magnitude at most 2^-45 the double 360 + lon is 360.0 itself.
C4_LonWithin360 ==
    pc = "sample_init" =>
        \A k \in 1..Len(locs) :
            /\ NormalizedFrom(locs0[k].lon, locs[k].lon)
            /\ Ge0(locs[k].lon)
            /\ Le360(locs[k].lon)
            /\ NormalizeLon(locs[k].lon) = locs[k].lon

\* C4 witness: the loop has turned -119.6982 into 240.3018 and -2^-MaxTiny
\* into 360.0.
C4_Witness ==
    /\ pc = "sample_init"
    /\ locs0[1].lon = Deg6(-119698200)
    /\ locs[1].lon = Deg6(240301800)
    /\ locs0[2].lon = [u |-> 0, tiny |-> MaxTiny]
    /\ locs[2].lon = Deg6(360 * Micro)

-----------------------------------------------------------------------------
(* Properties of the point sampling, under Spec *)

LocOf(name) == CHOOSE l \in Range(locs) : l.name = name

\* v lies within the range of the coordinate idx
InRange(idx, v) == \E j \in 1..Len(idx), k \in 1..Len(idx) : idx[j] <= v /\ v <= idx[k]

\* C5 as stated: a location outside the coordinate range of the sampled
\* dataset gets no series of any grid cell (the lookup raises instead).
C5_OutOfRangeHalts ==
    \A e \in ds_locs :
        /\ InRange(air_temp.lat, LocOf(e.name).lat)
        /\ InRange(air_temp.lon, LocOf(e.name).lon.u)

\* C5 amended: every location the loop has come to, in range or not, has the
\* series of the grid cell nearest to it (the cell on the edge of the subset
\* when it is out of range), and the execution does not halt in the sampling.
C5_OutOfRangeNearestEdge ==
    /\ \A e \in ds_locs :
          /\ \A c \in Range(air_temp.lat) :
                Abs(e.lat - LocOf(e.name).lat) <= Abs(c - LocOf(e.name).lat)
          /\ \A c \in Range(air_temp.lon) :
                Abs(e.lon - LocOf(e.name).lon.u) <= Abs(c - LocOf(e.name).lon.u)
    /\ pc = "sample" => {e.name : e \in ds_locs} = {locs[k].name : k \in 1..(li - 1)}
    /\ pc \in {"describe", "done"} =>
          {e.name : e \in ds_locs} = {locs[k].name : k \in 1..Len(locs)}
    /\ pc = "halted" => locs = <<>>

\* C5 witness: the execution is done and honolulu, south and west of the
\* subset, has the series of the subset's south-west corner cell.
C5_Witness ==
    /\ pc = "done"
    /\ \E e \in ds_locs :
          /\ e.name = "honolulu"
          /\ ~InRange(air_temp.lat, LocOf(e.name).lat)
          /\ ~InRange(air_temp.lon, LocOf(e.name).lon.u)
          /\ e.lat = air_temp.lat[Len(air_temp.lat)]
          /\ e.lon = air_temp.lon[1]
    /\ \E r \in df_f : r.name = "honolulu" /\ Len(r.series) = NTimes

-----------------------------------------------------------------------------
(* Properties of the bounding-box selection, under SpecSel *)

Within(idx, lo, hi) == {c \in Range(idx) : lo <= c /\ c <= hi}

\* C6: on the descending latitude and the ascending longitude, bounds given
\* in the coordinate's order select exactly the coordinates within the
\* inclusive bounds, bounds given in the opposite order select nothing, no
\* error is raised, and the bounds as written select a non-empty subset.
C6_BoundingBox ==
    pc = "convP" =>
        /\ Range(ds.lat) = IF bbox.lat[1] >= bbox.lat[2]
                             THEN Within(LatIndex, bbox.lat[2], bbox.lat[1]) ELSE {}
        /\ Range(ds.lon) = IF bbox.lon[1] <= bbox.lon[2]
                             THEN Within(LonIndex, bbox.lon[1], bbox.lon[2]) ELSE {}
        /\ Len(ds.lat) = Cardinality(Range(ds.lat))
        /\ Len(ds.lon) = Cardinality(Range(ds.lon))
        /\ bbox = BBoxLiteral => (ds.lat # <<>> /\ ds.lon # <<>>)

\* C6 witness: the selection as written has been made and is a non-empty
\* proper part of the grid.
C6_Witness ==
    /\ pc = "convP"
    /\ bbox = BBoxLiteral
    /\ ds.lat # <<>>
    /\ ds.lon # <<>>
    /\ Len(ds.lat) < Len(LatIndex)
    /\ Len(ds.lon) < Len(LonIndex)

-----------------------------------------------------------------------------
(* Properties of the deferred computation and of the conversions, under Spec *)

B(x) == IF x THEN 1 ELSE 0

Computed(h) == h.set /\ ~h.lazy

\* C7: from the persist on, the source files have been read twice in the
\* execution (by the compute of line 248 and by the persist of line 281) and
\* no reduction over the persisted handle adds a read; the mean and the
\* standard deviation are those of the values held in memory, and the mean
\* equals the mean computed earlier from the dataset that was not persisted.
C7_PersistedReuse ==
    /\ air_temp.set => reads = 2
    /\ temp_mean.set =>
          /\ temp_mean.of = air_temp
          /\ temp_mean.val = MeanTime0(air_temp.val, Len(air_temp.lat), Len(air_temp.lon))
          /\ ~da_temp_mean.of.inMemory
          /\ temp_mean.val = da_temp_mean.val
    /\ temp_std.set =>
          /\ temp_std.of = air_temp
          /\ temp_std.val = StdTime0(air_temp.val, Len(air_temp.lat), Len(air_temp.lon))

\* C7 witness: both reductions over the persisted handle are computed, the
\* reads stand at two and the two means agree.
C7_Witness ==
    /\ pc = "locs"
    /\ air_temp.inMemory
    /\ Computed(temp_mean)
    /\ Computed(temp_std)
    /\ reads = 2
    /\ temp_mean.val # <<>>
    /\ temp_mean.val = da_temp_mean.val

\* C8 amended: every graph execution of the execution is that of one materializing
\* call made so far (the compute of the mean, the persist, the two computes
\* over the persisted handle, the conversion to a data frame); while the mean
\* of line 232 is not computed, whatever of opening, subsetting, converting
\* and building the mean has run has executed nothing and read no array, and
\* the mean holds no values.
C8_Deferred ==
    /\ computes = B(Computed(da_temp_mean)) + B(air_temp.inMemory)
                    + B(Computed(temp_mean)) + B(Computed(temp_std)) + B(df_f # {})
    /\ ~Computed(da_temp_mean) =>
          /\ computes = 0
          /\ reads = 0
          /\ da_temp_mean.val = <<>>
          /\ ~air_temp.set

\* C8 as stated: as the amended C8 above, with compute and persist the only
\* calls that execute a graph.
C8_OnlyComputeOrPersist ==
    /\ computes = B(Computed(da_temp_mean)) + B(air_temp.inMemory)
                    + B(Computed(temp_mean)) + B(Computed(temp_std))
    /\ ~Computed(da_temp_mean) =>
          /\ computes = 0
          /\ reads = 0
          /\ da_temp_mean.val = <<>>
          /\ ~air_temp.set

\* C8 witness: the dataset is opened, subset and converted and the mean is
\* built, and nothing has been computed.
C8_Witness ==
    /\ pc = "compute"
    /\ ds.open
    /\ Len(ds.lat) < Len(LatIndex)
    /\ ds.fields[var1].ops = <<"sub27315">>
    /\ da_temp_mean.set
    /\ da_temp_mean.lazy
    /\ da_temp_mean.of.ops = <<"sub27315">>
    /\ computes = 0
    /\ reads = 0

ConvertedOnce ==
    /\ ds.fields[var2].ops = <<"div100">>
    /\ ds.fields[var2].units = "hPa"
    /\ ds.fields[var1].ops = <<"sub27315">>
    /\ ds.fields[var1].units = "C"

\* C9: a field that carries its new unit label has exactly one conversion
\* recorded; a conversion is recorded only on the dataset already cut to the
\* bounding box; once a reduction, the persist or the sampling cells have run,
\* both fields are converted exactly once; and the mean and the persisted
\* values are those of the source minus 273.15, once.
C9_ConvertedOnce ==
    /\ ds.fields[var2].units = "hPa" => ds.fields[var2].ops = <<"div100">>
    /\ ds.fields[var1].units = "C" => ds.fields[var1].ops = <<"sub27315">>
    /\ \A v \in {var1, var2} :
          ds.fields[v].ops # <<>> =>
              /\ ds.lat = SliceSel(LatIndex, bbox.lat[1], bbox.lat[2])
              /\ ds.lon = SliceSel(LonIndex, bbox.lon[1], bbox.lon[2])
    /\ (da_temp_mean.set \/ air_temp.set \/ temp_mean.set \/ temp_std.set
            \/ locs # <<>> \/ ds_locs # {} \/ df_f # {}) => ConvertedOnce
    /\ da_temp_mean.set => da_temp_mean.of.ops = <<"sub27315">>
    /\ Computed(da_temp_mean) =>
          \A a \in 1..Len(ds.lat), o \in 1..Len(ds.lon) :
              da_temp_mean.val[a][o] =
                  <<SumTo([t \in 1..NTimes |-> [x \in 1..Len(ds.lat) |-> [y \in 1..Len(ds.lon) |->
                        Src(var1, t, ds.lat[x], ds.lon[y]) - 27315]]], a, o, NTimes), NTimes>>
    /\ air_temp.inMemory =>
          \A t \in 1..NTimes, a \in 1..Len(ds.lat), o \in 1..Len(ds.lon) :
              air_temp.val[t][a][o] = Src(var1, t, ds.lat[a], ds.lon[o]) - 27315

\* C9 witness: an execution has run to its end with both fields converted
\* once and the sampled series drawn from the converted values.
C9_Witness ==
    /\ pc = "done"
    /\ ConvertedOnce
    /\ Computed(temp_std)
    /\ \E r \in df_f, e \in ds_locs :
          /\ r.name = e.name
          /\ r.series[1] = Src(var1, 1, e.lat, e.lon) - 27315

====
